---------------------------- MODULE Spec2Model ----------------------------
(***************************************************************************)
(* Model of the console interface of TypeCNN                               *)
(* (src/src/CommandLineInterface.cpp).                                      *)
(*                                                                         *)
(* Spec      : one invocation of runWithGivenArguments, from the command   *)
(*             line to the returned exit code, with the calls it makes to  *)
(*             the persistence layer, the parsers and the network.         *)
(* SpecTraining : the same, for the command lines that select training,   *)
(*             with a longer training loop.                                *)
(* SpecParse : parseInputDataset on its own, one loop iteration per step.  *)
(*                                                                         *)
(* A command line is the set of options it holds, the files of --train and *)
(* --validate, and argc.  Options that only carry a value into the network *)
(* (seed, epochs, learning rate, ...) take no part in any decision of the  *)
(* interface and are left out of the command lines drawn here.             *)
(***************************************************************************)
EXTENDS Integers, Sequences, FiniteSets, TLC

\* ------------------------------------------------------------------ bounds
MaxRunFiles == 1
MaxRunEpochs == 1
MaxEpochs == 3
MaxAcc == 2
MaxFiles == 3
MaxOffset == 2
MaxToLoad == 2
SamplesPerFile == 2

\* ------------------------------------------------------- program constants
InferenceMaxArgc == 6
ValidationBaseArgc == 4
EXIT_SUCCESS == 0
EXIT_FAILURE == 1
InitialBestAccuracy == -1
ArgumentValue == 1

NoReturn == 0 - 1

VARIABLES
    pc,                 \* position inside runWithGivenArguments
    args,               \* the command line of the invocation
    ret,                \* value returned by runWithGivenArguments, NoReturn before
    diag,               \* the diagnostic printed by the argument checks
    inference, training, validation,
    grayscale, saveWeights, keepBest,
    periodicValidation, \* trainingSettings.periodicValidation
    validationDataset, trainingDataset,
    exitCode,           \* the local exitCode of the run block
    calls,              \* calls made to the collaborators, in order
    callbackSet,        \* the network holds the epoch-finished callback
    epochLimit,         \* epochs the training loop runs at most
    epoch,              \* epochs the training loop has finished
    bestAccuracy,       \* the static of keepBestCallback
    notified,           \* one record per call of keepBestCallback
    files, offset, toLoad,   \* parameters of parseInputDataset
    input,              \* its local dataset
    fileIdx,            \* position of its loop in files
    parserCalls,        \* parser calls it made, in order
    ppc                 \* its position: idle, loop, returned, threw

runVars == <<pc, args, ret, diag, inference, training, validation, grayscale,
             saveWeights, keepBest, periodicValidation, validationDataset,
             trainingDataset, exitCode, calls, callbackSet, epochLimit,
             epoch, bestAccuracy, notified>>
parseVars == <<files, offset, toLoad, input, fileIdx, parserCalls, ppc>>
vars == <<runVars, parseVars>>

\* --------------------------------------------------------------- file names
\* A file name is the sequence of its characters.
Name_a_idx == <<"a", ".", "i", "d", "x">>
Name_b_bin == <<"b", ".", "b", "i", "n">>
Name_c_txt == <<"c", ".", "t", "x", "t">>
Name_d_dat == <<"d", ".", "d", "a", "t">>
Name_dot_bin == <<".", "b", "i", "n">>
Name_a_idx_z == <<"a", ".", "i", "d", "x", ".", "z">>

FileNames == {Name_a_idx, Name_b_bin, Name_c_txt, Name_d_dat, Name_dot_bin,
              Name_a_idx_z}
RunFileNames == {Name_a_idx, Name_d_dat}

SeqsUpTo(S, n) == UNION {[1..k -> S] : k \in 0..n}

LastDot(f) ==
    LET dots == {i \in 1..Len(f) : f[i] = "."}
    IN  IF dots = {} THEN 0 ELSE CHOOSE i \in dots : \A j \in dots : j <= i

Extension(f) == SubSeq(f, LastDot(f) + 1, Len(f))

Contains(s, pat) ==
    \E i \in 1..(Len(s) - Len(pat) + 1) : SubSeq(s, i, i + Len(pat) - 1) = pat

\* ".+\\.[^\\.]*idx[^\\.]*$" as a full match
MatchesIdx(f) == LastDot(f) > 1 /\ Contains(Extension(f), <<"i", "d", "x">>)

\* ".+\\.[^\\.]*bin[^\\.]*$" as a full match
MatchesBin(f) == LastDot(f) > 1 /\ Contains(Extension(f), <<"b", "i", "n">>)

\* "^.+\\.txt$" as a full match
MatchesTxt(f) == LastDot(f) > 1 /\ Extension(f) = <<"t", "x", "t">>

Recognized(f) == MatchesIdx(f) \/ MatchesBin(f) \/ MatchesTxt(f)

ParserOf(f) ==
    IF MatchesIdx(f) THEN "IdxParser"
    ELSE IF MatchesBin(f) THEN "BinaryParser"
    ELSE IF MatchesTxt(f) THEN "PngParser"
    ELSE "none"

\* ------------------------------------------------------------ the parsers
\* The samples a file holds: sample i of file f is <<f, i>>.
FileContent(f) == [i \in 1..SamplesPerFile |-> <<f, i>>]

\* parseLabelledImages of the three parsers: skip `off` samples, then take
\* `num` samples, all that remain when num is 0.
ParseLabelledImages(f, off, num) ==
    LET all == FileContent(f)
        last == IF num = 0 \/ off + num > Len(all) THEN Len(all) ELSE off + num
    IN  SubSeq(all, off + 1, last)

\* ------------------------------------------------------- parseInputDataset
\* One iteration of the loop over the files: the new value of `input`.
LoopBody_ClearOnUnknown(inp, f, off, num) ==
    IF Recognized(f) THEN ParseLabelledImages(f, off, num) ELSE <<>>

LoopBody(inp, f, off, num) ==
    IF MatchesIdx(f) THEN ParseLabelledImages(f, off, num)
    ELSE IF MatchesBin(f) THEN ParseLabelledImages(f, off, num)
    ELSE IF MatchesTxt(f) THEN ParseLabelledImages(f, off, num)
    ELSE inp

RECURSIVE ParseLoop(_, _, _, _, _)
ParseLoop(fs, i, inp, off, num) ==
    IF i > Len(fs) THEN inp
    ELSE ParseLoop(fs, i + 1, LoopBody(inp, fs[i], off, num), off, num)

parseInputDataset(fs, off, num) == ParseLoop(fs, 1, <<>>, off, num)

\* The parser calls parseInputDataset makes for a file list.
ParsedFiles(fs) == SelectSeq(fs, Recognized)


\* ---------------------------------------------------------- command lines
B(b) == IF b THEN 1 ELSE 0

\* args.count(name) of the option parser: the number of times a registered
\* option occurs, and 0 for a name the constructor never registered.
Count(a, name) ==
    CASE name = "help" -> B(a.help)
      [] name = "type-info" -> B(a.typeInfo)
      [] name = "grayscale" -> B(a.grayscale)
      [] name = "cnn" -> B(a.cnn)
      [] name = "input" -> B(a.input)
      [] name = "validate" -> Len(a.validate)
      [] name = "validate-offset" -> B(a.validateOffset)
      [] name = "validate-num" -> B(a.validateNum)
      [] name = "train" -> Len(a.train)
      [] name = "do-not-save" -> B(a.doNotSave)
      [] name = "periodic-validation" -> B(a.periodicValidation)
      [] name = "keep-best" -> B(a.keepBest)
      [] OTHER -> 0

\* Options without a value take one element of argv each; an option with a
\* value takes one ("--cnn=net.xml") or two ("-c net.xml") per occurrence.
FlagTokens(a) ==
    B(a.help) + B(a.typeInfo) + B(a.grayscale) + B(a.doNotSave)
    + B(a.periodicValidation) + B(a.keepBest)

ValueOccurrences(a) ==
    B(a.cnn) + B(a.input) + Len(a.validate) + B(a.validateOffset)
    + B(a.validateNum) + Len(a.train)

ArgcMin(a) == 1 + FlagTokens(a) + ValueOccurrences(a)
ArgcMax(a) == 1 + FlagTokens(a) + 2 * ValueOccurrences(a)
ArgcLimit == 7 + 2 * (4 + 2 * MaxRunFiles)

RunFileLists == SeqsUpTo(RunFileNames, MaxRunFiles)

\* The command lines an invocation is drawn from.  malformed: the option
\* parser throws on it (an unknown option, a missing or ill-typed value).
Invocations ==
    {a \in [help : BOOLEAN, typeInfo : BOOLEAN, grayscale : BOOLEAN,
            cnn : BOOLEAN, input : BOOLEAN,
            validate : RunFileLists, validateOffset : BOOLEAN,
            validateNum : BOOLEAN, train : RunFileLists,
            doNotSave : BOOLEAN, periodicValidation : BOOLEAN,
            keepBest : BOOLEAN, malformed : BOOLEAN, argc : 1..ArgcLimit] :
        /\ ArgcMin(a) <= a.argc /\ a.argc <= ArgcMax(a)
        /\ (a.malformed => a.argc >= 2)}

\* -------------------------------------------- runWithGivenArguments: checks
\* argcBackup after the type-info block
argcBackup(a) == IF Count(a, "type-info") > 0 THEN a.argc - 1 ELSE a.argc

InferenceTooManyArguments(a) ==
    Count(a, "input") > 0 /\ argcBackup(a) > InferenceMaxArgc

ValidationOptionsWithoutFiles(a) ==
    Count(a, "validate") = 0
    /\ (Count(a, "validation-offset") > 0 \/ Count(a, "validation-num") > 0)

KeepBestWithoutSaving_Off(a) == FALSE

KeepBestWithoutSaving(a) ==
    Count(a, "keep-best") > 0 /\ Count(a, "do-not-save") > 0

KeepBestWithoutPeriodicValidation(a) ==
    Count(a, "keep-best") > 0 /\ Count(a, "periodic-validation") = 0

ValidationCountMismatch_FilesOnly(a) ==
    Count(a, "train") = 0
    /\ Len(a.validate) + ValidationBaseArgc # argcBackup(a)

ValidationCountMismatch(a) ==
    Count(a, "train") = 0
    /\ 2 * Count(a, "validate-offset") + 2 * Count(a, "validate-num")
       + Len(a.validate) + ValidationBaseArgc # argcBackup(a)

NoModeChosen(inf, trn, val) == ~inf /\ ~trn /\ ~val

ModeConflict_TrainingAndValidation(inf, trn, val) == inf /\ trn /\ val

ModeConflict(inf, trn, val) == inf /\ (trn \/ val)

MsgNoParameters == "No parameters given."
MsgParserException == "exception of the option parser"
MsgNoCnn == "XML representation of CNN required."
MsgInference == "Invalid combination of parameters for Inference mode."
MsgValidationOptions ==
    "Cannot set validation num/offset without setting validation files."
MsgKeepBestSaving == "Cannot keep best if saving is not enabled."
MsgKeepBestPeriodic == "Cannot keep best if periodic validation is not enabled."
MsgValidation == "Invalid combination of parameters for Validation mode."
MsgNoMode == "No mode chosen. Choose either inference, training and/or validation."
MsgModeConflict == "Cannot run input mode along validation/training."

\* Where the argument block leaves runWithGivenArguments: "help" and
\* "type-info" (return EXIT_SUCCESS), the message of the failed check
\* (return EXIT_FAILURE), or "accepted" (the block is passed).
ArgumentOutcome(a) ==
    IF a.argc = 1 THEN MsgNoParameters
    ELSE IF a.malformed THEN MsgParserException
    ELSE IF Count(a, "help") > 0 THEN "help"
    ELSE IF Count(a, "type-info") > 0 /\ a.argc = 2 THEN "type-info"
    ELSE IF Count(a, "cnn") = 0 THEN MsgNoCnn
    ELSE IF InferenceTooManyArguments(a) THEN MsgInference
    ELSE IF Count(a, "train") > 0 /\ ValidationOptionsWithoutFiles(a)
        THEN MsgValidationOptions
    ELSE IF Count(a, "train") > 0 /\ KeepBestWithoutSaving(a)
        THEN MsgKeepBestSaving
    ELSE IF Count(a, "train") > 0 /\ KeepBestWithoutPeriodicValidation(a)
        THEN MsgKeepBestPeriodic
    ELSE IF Count(a, "validate") > 0 /\ ValidationCountMismatch(a)
        THEN MsgValidation
    ELSE IF NoModeChosen(Count(a, "input") > 0, Count(a, "train") > 0,
                         Count(a, "validate") > 0)
        THEN MsgNoMode
    ELSE IF ModeConflict(Count(a, "input") > 0, Count(a, "train") > 0,
                         Count(a, "validate") > 0)
        THEN MsgModeConflict
    ELSE "accepted"

\* The outcomes that leave before the block at the given line is reached.
BeforeCnn == {MsgNoParameters, MsgParserException, "help", "type-info"}
BeforeInput == BeforeCnn \cup {MsgNoCnn}
BeforeTrain == BeforeInput \cup {MsgInference}
BeforeValidate ==
    BeforeTrain \cup {MsgValidationOptions, MsgKeepBestSaving, MsgKeepBestPeriodic}

ArgumentReturn_Success(a) ==
    IF ArgumentOutcome(a) = "accepted" THEN NoReturn ELSE EXIT_SUCCESS

ArgumentReturn(a) ==
    IF ArgumentOutcome(a) \in {"help", "type-info"} THEN EXIT_SUCCESS
    ELSE IF ArgumentOutcome(a) = "accepted" THEN NoReturn
    ELSE EXIT_FAILURE


\* ------------------------------------------------------------ one invocation
NoArgs ==
    [help |-> FALSE, typeInfo |-> FALSE, grayscale |-> FALSE, cnn |-> FALSE,
     input |-> FALSE, validate |-> <<>>, validateOffset |-> FALSE,
     validateNum |-> FALSE, train |-> <<>>, doNotSave |-> FALSE,
     periodicValidation |-> FALSE, keepBest |-> FALSE, malformed |-> FALSE,
     argc |-> 1]

ParseIdle ==
    /\ files = <<>> /\ offset = 0 /\ toLoad = 0 /\ input = <<>>
    /\ fileIdx = 1 /\ parserCalls = <<>> /\ ppc = "idle"

\* The state runWithGivenArguments starts from: its locals (lines 76-93) and
\* the members of the interface, saveWeights set until --do-not-save clears
\* it, keepBest and grayscale clear until their options set them.
RunStart(a, limit) ==
    /\ pc = "start" /\ args = a /\ epochLimit = limit /\ ret = NoReturn /\ diag = ""
    /\ inference = FALSE /\ training = FALSE /\ validation = FALSE
    /\ grayscale = FALSE /\ saveWeights = TRUE /\ keepBest = FALSE
    /\ periodicValidation = FALSE
    /\ validationDataset = <<>> /\ trainingDataset = <<>>
    /\ exitCode = EXIT_SUCCESS /\ calls = <<>> /\ callbackSet = FALSE
    /\ epoch = 0 /\ bestAccuracy = InitialBestAccuracy /\ notified = <<>>

Init == (\E a \in Invocations : RunStart(a, MaxRunEpochs)) /\ ParseIdle

\* Lines 64-245: the argument block.
ParseArguments ==
    /\ pc = "start"
    /\ LET o == ArgumentOutcome(args)
           trn == Count(args, "train") > 0 /\ o \notin BeforeTrain
       IN  /\ diag' = o
           /\ ret' = ArgumentReturn(args)
           /\ pc' = IF o = "accepted" THEN "load" ELSE "done"
           /\ grayscale' = (Count(args, "grayscale") > 0 /\ o \notin BeforeCnn)
           /\ inference' = (Count(args, "input") > 0 /\ o \notin BeforeInput)
           /\ training' = trn
           /\ saveWeights' = ~(trn /\ Count(args, "do-not-save") > 0)
           /\ keepBest' = (trn /\ Count(args, "keep-best") > 0)
           /\ periodicValidation' =
                  (trn /\ Count(args, "periodic-validation") > 0)
           /\ validation' = (Count(args, "validate") > 0 /\ o \notin BeforeValidate)
    /\ UNCHANGED <<args, validationDataset, trainingDataset, exitCode, calls,
                   callbackSet, epoch, bestAccuracy, notified, epochLimit, parseVars>>

Return(code) == pc' = "done" /\ ret' = code

AfterLoadFailure_Run == "run"

\* Line 260: the catch clause of the load leaves runWithGivenArguments.
AfterLoadFailure == "done"

\* Lines 247-261: the network is loaded, or the load throws.
LoadNetwork ==
    /\ pc = "load"
    /\ \E ok \in BOOLEAN :
        IF ok
        THEN /\ calls' = Append(calls, "loadNetwork")
             /\ pc' = "run" /\ ret' = ret
        ELSE /\ calls' = Append(calls, "loadNetwork:throws")
             /\ pc' = AfterLoadFailure /\ ret' = EXIT_FAILURE
    /\ UNCHANGED <<args, diag, inference, training, validation, grayscale,
                   saveWeights, keepBest, periodicValidation,
                   validationDataset, trainingDataset, exitCode, callbackSet,
                   epoch, bestAccuracy, notified, epochLimit, parseVars>>

\* Lines 266-269 and 319-326: infere; either call may throw.
Infere ==
    /\ pc = "run" /\ inference
    /\ \E o \in {"ok", "imageThrows", "runThrows"} :
        /\ calls' = calls \o
               (CASE o = "ok" -> <<"parseInputImage", "run">>
                  [] o = "imageThrows" -> <<"parseInputImage:throws">>
                  [] o = "runThrows" -> <<"parseInputImage", "run:throws">>)
        /\ Return(IF o = "ok" THEN EXIT_SUCCESS ELSE EXIT_FAILURE)
    /\ UNCHANGED <<args, diag, inference, training, validation, grayscale,
                   saveWeights, keepBest, periodicValidation,
                   validationDataset, trainingDataset, exitCode, callbackSet,
                   epoch, bestAccuracy, notified, epochLimit, parseVars>>

ParserCallsOf(fs) == [i \in 1..Len(ParsedFiles(fs)) |-> "parseLabelledImages"]

\* Lines 81-82 and 213-222: the locals start at 0 and take the value of their
\* option only inside the block of --validate.
validationOffset(a) ==
    IF Count(a, "validate") > 0 /\ Count(a, "validate-offset") > 0
    THEN ArgumentValue ELSE 0
validationNum(a) ==
    IF Count(a, "validate") > 0 /\ Count(a, "validate-num") > 0
    THEN ArgumentValue ELSE 0

\* Lines 272-273: both datasets are parsed, or a parser throws.
ParseDatasets ==
    /\ pc = "run" /\ ~inference
    /\ LET all == ParserCallsOf(args.validate) \o ParserCallsOf(args.train)
       IN  \/ /\ validationDataset' =
                     parseInputDataset(args.validate, validationOffset(args),
                                       validationNum(args))
              /\ trainingDataset' = parseInputDataset(args.train, 0, 0)
              /\ calls' = calls \o all
              /\ pc' = IF training THEN "train" ELSE "validate"
              /\ ret' = ret
           \/ \E k \in 1..Len(all) :
                 /\ calls' = calls \o SubSeq(all, 1, k - 1)
                                   \o <<"parseLabelledImages:throws">>
                 /\ Return(EXIT_FAILURE)
                 /\ UNCHANGED <<validationDataset, trainingDataset>>
    /\ UNCHANGED <<args, diag, inference, training, validation, grayscale,
                   saveWeights, keepBest, periodicValidation, exitCode,
                   callbackSet, epoch, bestAccuracy, notified, epochLimit, parseVars>>

EmptyDataset_Never(data) == FALSE

EmptyDataset(data) == Len(data) = 0

\* Lines 276-279 and 332-353: train up to the call of cnn.train.
Train ==
    /\ pc = "train"
    /\ IF EmptyDataset(trainingDataset)
       THEN /\ exitCode' = EXIT_FAILURE
            /\ pc' = "validate"
            /\ UNCHANGED <<calls, callbackSet>>
       ELSE /\ callbackSet' = keepBest
            /\ calls' = calls \o (IF keepBest
                                  THEN <<"setOnEpochFinishedCallback", "train">>
                                  ELSE <<"train">>)
            /\ pc' = "training"
            /\ UNCHANGED exitCode
    /\ UNCHANGED <<args, ret, diag, inference, training, validation, grayscale,
                   saveWeights, keepBest, periodicValidation,
                   validationDataset, trainingDataset, epoch, bestAccuracy,
                   notified, epochLimit, parseVars>>

IsNewBest_OrEqual(epochAccuracy, best) == epochAccuracy >= best

IsNewBest(epochAccuracy, best) == epochAccuracy > best

\* An epoch of cnn.train ends; the network calls the callback it holds:
\* lines 345-349 and 438-446.  ok: the dumpNetwork of the callback succeeds.
EpochFinished ==
    /\ pc = "training" /\ epoch < epochLimit
    /\ epoch' = epoch + 1
    /\ IF callbackSet
       THEN \E epochAccuracy \in 0..MaxAcc :
              IF IsNewBest(epochAccuracy, bestAccuracy)
              THEN \E ok \in BOOLEAN :
                     /\ bestAccuracy' = epochAccuracy
                     /\ calls' = Append(calls, IF ok THEN "dumpNetwork"
                                                ELSE "dumpNetwork:throws")
                     /\ notified' = Append(notified,
                            [accuracy |-> epochAccuracy, wrote |-> TRUE,
                             ok |-> ok, best |-> epochAccuracy])
              ELSE /\ notified' = Append(notified,
                            [accuracy |-> epochAccuracy, wrote |-> FALSE,
                             ok |-> TRUE, best |-> bestAccuracy])
                   /\ UNCHANGED <<bestAccuracy, calls>>
       ELSE UNCHANGED <<bestAccuracy, calls, notified>>
    /\ UNCHANGED <<pc, args, ret, diag, inference, training, validation,
                   grayscale, saveWeights, keepBest, periodicValidation,
                   validationDataset, trainingDataset, exitCode, callbackSet,
                   epochLimit, parseVars>>

\* cnn.train throws: lines 296-310.
TrainThrows ==
    /\ pc = "training"
    /\ calls' = Append(calls, "train:throws")
    /\ Return(EXIT_FAILURE)
    /\ UNCHANGED <<args, diag, inference, training, validation, grayscale,
                   saveWeights, keepBest, periodicValidation,
                   validationDataset, trainingDataset, exitCode, callbackSet,
                   epoch, bestAccuracy, notified, epochLimit, parseVars>>

FinalDump_IgnoreSave(save, keep) == ~keep

FinalDump(save, keep) == save /\ ~keep

\* cnn.train returns: lines 355-361 and 419-432.
TrainReturns ==
    /\ pc = "training"
    /\ pc' = "validate"
    /\ IF FinalDump(saveWeights, keepBest)
       THEN \E ok \in BOOLEAN :
              /\ calls' = calls \o <<"train:returns">>
                                \o <<IF ok THEN "dumpNetwork"
                                     ELSE "dumpNetwork:throws">>
              /\ exitCode' = IF ok THEN EXIT_SUCCESS ELSE EXIT_FAILURE
       ELSE /\ calls' = calls \o <<"train:returns">>
            /\ exitCode' = EXIT_SUCCESS
    /\ UNCHANGED <<args, ret, diag, inference, training, validation, grayscale,
                   saveWeights, keepBest, periodicValidation,
                   validationDataset, trainingDataset, callbackSet, epoch,
                   bestAccuracy, notified, epochLimit, parseVars>>

StandaloneValidation(val, periodic) == val /\ ~periodic

TrainingSucceeded_Ignored(code) == TRUE

TrainingSucceeded(code) == code = EXIT_SUCCESS

\* Lines 281-293 and 368-379: the standalone validation and the return.
Validate ==
    /\ pc = "validate"
    /\ IF StandaloneValidation(validation, periodicValidation)
          /\ TrainingSucceeded(exitCode)
       THEN IF EmptyDataset(validationDataset)
            THEN /\ exitCode' = EXIT_FAILURE
                 /\ Return(EXIT_FAILURE)
                 /\ UNCHANGED calls
            ELSE \E ok \in BOOLEAN :
                   /\ calls' = Append(calls, IF ok THEN "validate"
                                              ELSE "validate:throws")
                   /\ exitCode' = EXIT_SUCCESS
                   /\ Return(IF ok THEN EXIT_SUCCESS ELSE EXIT_FAILURE)
       ELSE /\ Return(exitCode)
            /\ UNCHANGED <<exitCode, calls>>
    /\ UNCHANGED <<args, diag, inference, training, validation, grayscale,
                   saveWeights, keepBest, periodicValidation,
                   validationDataset, trainingDataset, callbackSet, epoch,
                   bestAccuracy, notified, epochLimit, parseVars>>

Next ==
    \/ ParseArguments
    \/ LoadNetwork
    \/ Infere
    \/ ParseDatasets
    \/ Train
    \/ EpochFinished
    \/ TrainThrows
    \/ TrainReturns
    \/ Validate

Spec == Init /\ [][Next]_vars

\* Training runs alone, with a longer training loop: the command lines that
\* select training, every option with a value written as two elements of argv.
TrainingInvocations ==
    {a \in Invocations :
        /\ Len(a.train) > 0 /\ a.cnn /\ ~a.input
        /\ ~a.help /\ ~a.typeInfo /\ ~a.grayscale /\ ~a.malformed
        /\ a.argc = ArgcMax(a)}

InitTraining ==
    (\E a \in TrainingInvocations : RunStart(a, MaxEpochs)) /\ ParseIdle

NextTraining ==
    \/ ParseArguments
    \/ LoadNetwork
    \/ ParseDatasets
    \/ Train
    \/ EpochFinished
    \/ TrainThrows
    \/ TrainReturns
    \/ Validate

SpecTraining == InitTraining /\ [][NextTraining]_vars


\* ------------------------------------------- parseInputDataset, step by step
ParseFileLists == SeqsUpTo(FileNames, MaxFiles)

InitParse ==
    /\ RunStart(NoArgs, 0)
    /\ files \in ParseFileLists
    /\ offset \in 0..MaxOffset
    /\ toLoad \in 0..MaxToLoad
    /\ input = <<>> /\ fileIdx = 1 /\ parserCalls = <<>> /\ ppc = "loop"

\* Lines 390-410: one iteration of the loop, the parser returning.
ParseFile ==
    /\ ppc = "loop" /\ fileIdx <= Len(files)
    /\ LET file == files[fileIdx]
       IN  /\ input' = LoopBody(input, file, offset, toLoad)
           /\ parserCalls' = IF ParserOf(file) = "none" THEN parserCalls
                             ELSE Append(parserCalls, <<ParserOf(file), file>>)
    /\ fileIdx' = fileIdx + 1
    /\ UNCHANGED <<files, offset, toLoad, ppc, runVars>>

\* Lines 390-410: one iteration of the loop, the parser throwing.
ParserThrows ==
    /\ ppc = "loop" /\ fileIdx <= Len(files)
    /\ ParserOf(files[fileIdx]) # "none"
    /\ parserCalls' =
           Append(parserCalls, <<ParserOf(files[fileIdx]), files[fileIdx]>>)
    /\ ppc' = "threw"
    /\ UNCHANGED <<files, offset, toLoad, input, fileIdx, runVars>>

\* Line 412
ParseReturns ==
    /\ ppc = "loop" /\ fileIdx > Len(files)
    /\ ppc' = "returned"
    /\ UNCHANGED <<files, offset, toLoad, input, fileIdx, parserCalls, runVars>>

NextParse == ParseFile \/ ParserThrows \/ ParseReturns

SpecParse == InitParse /\ [][NextParse]_vars

\* ======================================================================
\* The claims
\* ======================================================================
Called(names) == \E i \in 1..Len(calls) : calls[i] \in names
CountCalls(names) == Cardinality({i \in 1..Len(calls) : calls[i] \in names})
FirstCall(names) ==
    CHOOSE i \in 1..Len(calls) :
        calls[i] \in names /\ \A j \in 1..(i - 1) : calls[j] \notin names

RunCalls == {"run", "run:throws"}
TrainCalls == {"train", "train:throws", "train:returns"}
ValidateCalls == {"validate", "validate:throws"}
DumpCalls == {"dumpNetwork", "dumpNetwork:throws"}

Rejected == pc = "done" /\ ret = EXIT_FAILURE /\ calls = <<>>
Accepted == pc # "start" /\ diag = "accepted"

MixedModes(a) ==
    a.cnn /\ a.input /\ (Len(a.train) > 0 \/ Len(a.validate) > 0)

\* C1 as stated: every invocation with --cnn, --input and --train and/or
\* --validate returns 1 without loading the model or calling anything, and
\* every accepted invocation is inference-only or training-and/or-validation.
C1_AsStated ==
    /\ (pc # "start" /\ MixedModes(args)) => Rejected
    /\ Accepted => (inference # (training \/ validation))

\* C1, amended: an invocation with --cnn, --input and --train and/or
\* --validate never loads the model nor calls a parser or the network, and
\* returns 1 unless it also holds --help; every accepted invocation is
\* inference-only or training-and/or-validation, never both.
C1_NoMixedModes ==
    /\ (pc # "start" /\ MixedModes(args)) =>
           /\ pc = "done" /\ calls = <<>>
           /\ (~args.help => ret = EXIT_FAILURE)
    /\ Accepted =>
           /\ inference # (training \/ validation)
           /\ args.input # (Len(args.train) > 0 \/ Len(args.validate) > 0)

\* C1: the mode conflict check itself rejected a mixed invocation.
C1_Witness ==
    /\ pc = "done" /\ MixedModes(args) /\ diag = MsgModeConflict
    /\ ret = EXIT_FAILURE /\ calls = <<>>

\* C2: every invocation with --keep-best and --do-not-save returns 1 before
\* the model is loaded, whatever else it holds.  (Help requests, which
\* return 0 before any check, are set aside.)
C2_KeepBestNeedsSaving ==
    (pc # "start" /\ ~args.help /\ args.keepBest /\ args.doNotSave) => Rejected

\* C3: every invocation with --keep-best and without --periodic-validation
\* returns 1 before the model is loaded, in every mode.  (Help requests,
\* which return 0 before any check, are set aside.)
C3_KeepBestNeedsPeriodicValidation ==
    (pc # "start" /\ ~args.help /\ args.keepBest /\ ~args.periodicValidation)
        => Rejected

RECURSIVE ConcatParsed(_, _, _)
ConcatParsed(fs, off, num) ==
    IF fs = <<>> THEN <<>>
    ELSE (IF Recognized(Head(fs)) THEN ParseLabelledImages(Head(fs), off, num)
          ELSE <<>>) \o ConcatParsed(Tail(fs), off, num)

\* C4: parseInputDataset returns the concatenation, in file-list order, of
\* the per-file parse results, each file parsed with the same offset and
\* count.
C4_Concatenation ==
    ppc = "returned" => input = ConcatParsed(files, offset, toLoad)

\* C5: an iteration of parseInputDataset on a file that matches none of the
\* three patterns calls no parser, throws nothing, leaves the dataset
\* accumulated so far unchanged and moves on to the next file.
C5_UnrecognizedFileSkipped ==
    [][(ppc = "loop" /\ fileIdx <= Len(files) /\ ~Recognized(files[fileIdx]))
         => (/\ input' = input
             /\ parserCalls' = parserCalls
             /\ ppc' = "loop"
             /\ fileIdx' = fileIdx + 1)]_vars

\* C5: an unrecognized second file was passed over with the samples of the
\* first file kept, and a third file is still to come.
C5_Witness ==
    /\ ppc = "loop" /\ Len(files) = 3 /\ fileIdx = 3
    /\ Recognized(files[1]) /\ ~Recognized(files[2])
    /\ input # <<>> /\ input = ParseLabelledImages(files[1], offset, toLoad)
    /\ Len(parserCalls) = 1

\* C6 as stated: train with an empty training set fails without callback,
\* cnn.train or write; validate with an empty validation set fails without
\* cnn.validate; an empty file list gives an empty dataset; a run whose
\* selected mode has no samples returns 1 with no engine call for that mode.
C6_AsStated ==
    /\ (training /\ pc \in {"validate", "done"} /\ trainingDataset = <<>>)
           => /\ ~Called(TrainCalls \cup DumpCalls \cup {"setOnEpochFinishedCallback"})
              /\ ~callbackSet
              /\ (pc = "done" => ret = EXIT_FAILURE)
    /\ (validation /\ validationDataset = <<>>)
           => /\ ~Called(ValidateCalls)
              /\ (pc = "done" => ret = EXIT_FAILURE)
    /\ (Len(args.train) = 0 => trainingDataset = <<>>)
    /\ (Len(args.validate) = 0 => validationDataset = <<>>)

\* C6, amended: as stated, except that an empty validation set makes the run
\* return 1 only when the standalone validation is selected (validation
\* files given, periodic validation not set); with periodic validation set
\* the validation set is handed to cnn.train unchecked.
C6_EmptyDatasetFailsFast ==
    /\ (training /\ pc \in {"validate", "done"} /\ trainingDataset = <<>>)
           => /\ ~Called(TrainCalls \cup DumpCalls \cup {"setOnEpochFinishedCallback"})
              /\ ~callbackSet
              /\ (pc = "done" => ret = EXIT_FAILURE)
    /\ (validation /\ validationDataset = <<>>)
           => /\ ~Called(ValidateCalls)
              /\ (pc = "done" /\ ~periodicValidation => ret = EXIT_FAILURE)
    /\ (Len(args.train) = 0 => trainingDataset = <<>>)
    /\ (Len(args.validate) = 0 => validationDataset = <<>>)

\* C6: train has returned failure on an empty training set although the
\* validation set holds samples, and the run ended with 1.
C6_Witness ==
    /\ pc = "done" /\ training /\ validation /\ ~periodicValidation
    /\ Called({"parseLabelledImages"})
    /\ trainingDataset = <<>> /\ validationDataset # <<>>
    /\ exitCode = EXIT_FAILURE /\ ret = EXIT_FAILURE

PriorAccuracies(k) == {notified[j].accuracy : j \in 1..(k - 1)}
BestBefore(k) == IF k = 1 THEN InitialBestAccuracy ELSE notified[k - 1].best
Writes == {k \in 1..Len(notified) : notified[k].wrote}

\* C7: keepBestCallback writes at notification k exactly when accuracy k is
\* strictly greater than every accuracy notified before it; otherwise it
\* writes nothing and leaves the stored best unchanged.  So a strictly
\* increasing sequence writes at every notification.
C7_WritesOnStrictImprovement ==
    /\ \A k \in 1..Len(notified) :
          /\ notified[k].wrote <=>
                 (\A x \in PriorAccuracies(k) : x < notified[k].accuracy)
          /\ (~notified[k].wrote => notified[k].best = BestBefore(k))
          /\ (notified[k].wrote => notified[k].best = notified[k].accuracy)
    /\ (Len(notified) > 0 => bestAccuracy = notified[Len(notified)].best)
    /\ (callbackSet => CountCalls(DumpCalls) = Cardinality(Writes))
    /\ ((\A k \in 2..Len(notified) :
            notified[k - 1].accuracy < notified[k].accuracy)
          => Cardinality(Writes) = Len(notified))

\* C7: the sequence (a, a, b) with b < a has been notified and written once.
C7_Witness ==
    /\ Len(notified) = 3
    /\ notified[1].accuracy = notified[2].accuracy
    /\ notified[3].accuracy < notified[1].accuracy
    /\ Writes = {1} /\ CountCalls(DumpCalls) = 1

\* C8: with training selected, cnn.validate is called only after cnn.train
\* has returned and train has returned success (non-empty training set, no
\* failed final save); when train fails the run returns 1 without calling
\* cnn.validate; with periodic validation set cnn.validate is never called.
C8_ValidateAfterSuccessfulTraining ==
    /\ (training /\ Called(ValidateCalls)) =>
           /\ Called({"train:returns"})
           /\ FirstCall({"train:returns"}) < FirstCall(ValidateCalls)
           /\ ~Called({"dumpNetwork:throws"})
           /\ trainingDataset # <<>>
    /\ (training /\ pc = "done"
          /\ (trainingDataset = <<>>
              \/ (~keepBest /\ Called({"dumpNetwork:throws"})))) =>
           /\ ret = EXIT_FAILURE
           /\ ~Called(ValidateCalls)
    /\ (periodicValidation => ~Called(ValidateCalls))

\* C8: a run trained, train returned success, and only then validated.
C8_Witness ==
    /\ pc = "done" /\ training /\ validation /\ ~periodicValidation
    /\ Called({"train:returns"}) /\ Called({"validate"})
    /\ calls[Len(calls)] = "validate" /\ ret = EXIT_SUCCESS

\* C9: a failed persistence write, final or keep-best, makes the invocation
\* return 1.
C9_FailedWriteIsFatal ==
    (pc = "done" /\ Called({"dumpNetwork:throws"})) => ret = EXIT_FAILURE

OutsideInputSet(a) ==
    \/ Len(a.train) > 0 \/ Len(a.validate) > 0
    \/ a.validateOffset \/ a.validateNum
    \/ a.doNotSave \/ a.periodicValidation \/ a.keepBest

\* C10: with --input, every invocation holding an option other than --cnn,
\* --input, --grayscale and --type-info returns 1 before the model is
\* loaded.  (Help requests, which return 0 before any check, are set aside.)
C10_InferenceMinimalSet ==
    (pc # "start" /\ ~args.help /\ args.input /\ OutsideInputSet(args))
        => Rejected


StandaloneValidationMode(a) == Len(a.validate) > 0 /\ Len(a.train) = 0

\* argc with the program name, --type-info not counted
CountedArguments(a) == a.argc - B(a.typeInfo)

ExpectedValidationArguments(a) ==
    4 + 2 * B(a.validateOffset) + 2 * B(a.validateNum) + Len(a.validate)

\* C11 as stated: with --validate and without --train an invocation is
\* accepted exactly when its argument count, --type-info not counted, is
\* 4 + 2*(offset given) + 2*(count given) + number of validation files, and
\* returns 1 before the model is loaded otherwise.  (Command lines the
\* option parser throws on are set aside.)
C11_AsStated ==
    (pc # "start" /\ StandaloneValidationMode(args) /\ ~args.malformed) =>
        IF CountedArguments(args) = ExpectedValidationArguments(args)
        THEN Accepted
        ELSE Rejected

\* C11, amended: with --validate and without --train, an invocation whose
\* argument count differs from that number returns 1 before the model is
\* loaded unless it holds --help; one whose count equals it is accepted
\* exactly when it parses, holds --cnn and holds neither --help nor --input.
C11_ValidationArgumentCount ==
    (pc # "start" /\ StandaloneValidationMode(args)) =>
        /\ (CountedArguments(args) # ExpectedValidationArguments(args)
              /\ ~args.help) => Rejected
        /\ (CountedArguments(args) = ExpectedValidationArguments(args)) =>
              (Accepted <=> (/\ args.cnn /\ ~args.help
                             /\ ~args.input /\ ~args.malformed))
        /\ (Accepted => /\ validation /\ ~training /\ ~inference
                        /\ CountedArguments(args) = ExpectedValidationArguments(args))

\* C11: a standalone validation with --type-info and --validate-offset has
\* passed the count check and is about to load the model.
C11_Witness ==
    /\ pc = "load" /\ Accepted /\ StandaloneValidationMode(args)
    /\ args.typeInfo /\ args.validateOffset
    /\ CountedArguments(args) = ExpectedValidationArguments(args)


ArgumentErrors ==
    {MsgNoParameters, MsgParserException, MsgNoCnn, MsgInference,
     MsgValidationOptions, MsgKeepBestSaving, MsgKeepBestPeriodic,
     MsgValidation, MsgNoMode, MsgModeConflict}

RunExceptions ==
    {"parseInputImage:throws", "run:throws", "parseLabelledImages:throws",
     "train:throws", "validate:throws"}

\* C12: runWithGivenArguments returns 0 or 1 only, and 1 after an argument
\* error, a failed model load, train or the standalone validate finding its
\* dataset empty, or an exception of a parser or of the network; such an
\* exception is the last thing the run does.
C12_ExitCodes ==
    /\ ret \in {NoReturn, EXIT_SUCCESS, EXIT_FAILURE}
    /\ (pc = "done") = (ret \in {EXIT_SUCCESS, EXIT_FAILURE})
    /\ (diag \in ArgumentErrors => pc = "done" /\ ret = EXIT_FAILURE)
    /\ (Called({"loadNetwork:throws"}) => pc = "done" /\ ret = EXIT_FAILURE)
    /\ (pc = "done" /\ training /\ trainingDataset = <<>>) => ret = EXIT_FAILURE
    /\ (pc = "done" /\ validation /\ ~periodicValidation
          /\ validationDataset = <<>>) => ret = EXIT_FAILURE
    /\ Called(RunExceptions) =>
          /\ pc = "done" /\ ret = EXIT_FAILURE
          /\ calls[Len(calls)] \in RunExceptions
          /\ CountCalls(RunExceptions) = 1

\* C12: cnn.train threw with the final save and the standalone validation
\* still to come; neither was executed and the run returned 1.
C12_Witness ==
    /\ pc = "done" /\ ret = EXIT_FAILURE
    /\ training /\ validation /\ ~periodicValidation /\ saveWeights
    /\ validationDataset # <<>>
    /\ calls[Len(calls)] = "train:throws"
    /\ ~Called(DumpCalls \cup ValidateCalls)


\* C13: once the argument block is passed, keepBest implies saveWeights and
\* periodicValidation; the epoch-finished callback is installed only then,
\* once, and before cnn.train is called.
C13_KeepBestRequirements ==
    /\ (Accepted /\ keepBest) => (saveWeights /\ periodicValidation)
    /\ callbackSet => (Accepted /\ keepBest /\ saveWeights /\ periodicValidation)
    /\ Called({"setOnEpochFinishedCallback"}) =>
          /\ callbackSet
          /\ CountCalls({"setOnEpochFinishedCallback"}) = 1
          /\ Called({"train"})
          /\ FirstCall({"setOnEpochFinishedCallback"}) < FirstCall(TrainCalls)
    /\ (Called(TrainCalls) /\ keepBest) => callbackSet
    /\ (notified # <<>> => callbackSet)

\* C13: the callback is installed and cnn.train has just been called.
C13_Witness ==
    /\ pc = "training" /\ epoch = 0 /\ callbackSet /\ keepBest
    /\ saveWeights /\ periodicValidation
    /\ calls[Len(calls)] = "train"


\* The checkpoint file after the calls of keepBestCallback so far (lines
\* 419-432): the epoch whose weights the last completed dumpNetwork wrote,
\* 0 while the file is as it was loaded.  A dumpNetwork that throws leaves
\* no complete checkpoint of its epoch.
CheckpointEpoch ==
    LET written == {k \in 1..Len(notified) : notified[k].wrote /\ notified[k].ok}
    IN  IF written = {} THEN 0
        ELSE CHOOSE k \in written : \A j \in written : j <= k

MaxNotified ==
    CHOOSE x \in {notified[k].accuracy : k \in 1..Len(notified)} :
        \A k \in 1..Len(notified) : notified[k].accuracy <= x

EarliestMaxEpoch ==
    CHOOSE k \in 1..Len(notified) :
        /\ notified[k].accuracy = MaxNotified
        /\ \A j \in 1..(k - 1) : notified[j].accuracy < MaxNotified

\* C14: with keep-best active, after every notification the stored best is
\* the maximum accuracy notified so far and the checkpoint file holds the
\* weights of the earliest epoch that reached it.
C14_BestCheckpointOnDisk ==
    (callbackSet /\ notified # <<>>) =>
        /\ bestAccuracy = MaxNotified
        /\ CheckpointEpoch = EarliestMaxEpoch

\* C14 holds in the runs where no dumpNetwork of the callback throws.
C14_HoldsWhenWritesSucceed ==
    (callbackSet /\ notified # <<>> /\ ~Called({"dumpNetwork:throws"})) =>
        /\ bestAccuracy = MaxNotified
        /\ CheckpointEpoch = EarliestMaxEpoch


WritesAfter(i) == {j \in (i + 1)..Len(calls) : calls[j] \in DumpCalls}
WritesBefore(i) == {j \in 1..(i - 1) : calls[j] \in DumpCalls}

\* C15: once cnn.train has returned with saveWeights set, train writes the
\* final weights exactly once, unless keep-best has written during the
\* loop; so at least one write has been made by then.
C15_FinalWrite ==
    (pc \in {"validate", "done"} /\ saveWeights /\ Called({"train:returns"})) =>
        LET i == FirstCall({"train:returns"})
        IN  /\ Cardinality(WritesAfter(i)) <= 1
            /\ (WritesAfter(i) = {}) = (WritesBefore(i) # {})
            /\ CountCalls(DumpCalls) >= 1


\* C16: in training mode, an invocation with --validate-offset or
\* --validate-num and without --validate returns 1 before the model is
\* loaded, with the message about validation num/offset.  (Taken over the
\* command lines that parse, hold --cnn and hold neither --help nor --input.)
C16_ValidationOptionsNeedFiles ==
    (/\ pc # "start" /\ ~args.help /\ ~args.malformed /\ args.cnn /\ ~args.input
     /\ Len(args.train) > 0 /\ Len(args.validate) = 0
     /\ (args.validateOffset \/ args.validateNum))
        => (Rejected /\ diag = MsgValidationOptions)

LoadCalls == {"loadNetwork", "loadNetwork:throws"}

\* C17: a failed model load makes the invocation return 1 with nothing else
\* done: no parser, no call of the network, no callback, no write; the model
\* is loaded at most once, after the argument block is passed and before
\* everything else.
C17_LoadFailureAborts ==
    /\ Called({"loadNetwork:throws"}) =>
          /\ pc = "done" /\ ret = EXIT_FAILURE
          /\ calls = <<"loadNetwork:throws">>
          /\ ~callbackSet /\ notified = <<>> /\ epoch = 0
          /\ trainingDataset = <<>> /\ validationDataset = <<>>
    /\ CountCalls(LoadCalls) <= 1
    /\ (calls # <<>> => (Accepted /\ calls[1] \in LoadCalls))

\* C17: the load failed in a keep-best training run, and nothing followed.
C17_Witness ==
    /\ pc = "done" /\ ret = EXIT_FAILURE
    /\ calls = <<"loadNetwork:throws">>
    /\ training /\ keepBest /\ validation

\* C18: dumpNetwork is called only in runs that selected training, keep
\* saveWeights set, loaded the model and found a non-empty training set:
\* never with --input, never without --train, never with --do-not-save.
C18_WritesOnlyWhenTrainingSaves ==
    Called(DumpCalls) =>
        /\ Accepted /\ training /\ ~inference /\ saveWeights
        /\ Len(args.train) > 0 /\ ~args.input /\ ~args.doNotSave
        /\ Called({"loadNetwork"}) /\ Called({"train"})
        /\ trainingDataset # <<>>

\* C18: a training run without keep-best wrote its final weights and
\* returned 0.
C18_Witness ==
    /\ pc = "done" /\ ret = EXIT_SUCCESS
    /\ training /\ saveWeights /\ ~keepBest
    /\ Called({"dumpNetwork"})

=============================================================================
